---- MODULE Spec2Model ----
(***************************************************************************)
(* Model of the quota-aware, cache-fronted YouTube client, the import      *)
(* pipeline, the enhancement orchestrator and the playlist-video handlers  *)
(* of the AI playlist curator.  Every database statement of a handler is   *)
(* one atomic step; handlers of concurrent requests interleave between     *)
(* statements (each `await` is a suspension point).                        *)
(*                                                                         *)
(* The module holds one specification per subsystem (SpecQuota, SpecFetch, *)
(* ...).  They share the variables; a specification leaves the variables   *)
(* of the other subsystems at their initial values.                        *)
(***************************************************************************)
EXTENDS Integers, Sequences, FiniteSets, TLC

\* ------------------------------------------------------------------ bounds
MaxCalls == 2        \* calls started in one behaviour
MaxTicks == 2        \* clock advances in one behaviour
Headroom == 1        \* initial quota records lie within Headroom units of the limit
MaxVideos == 11      \* videos one import returns: a full batch and a partial one
NumVideos == 4       \* distinct videos a playlist can hold
MaxVideoOps == 2     \* add / remove / import-insert requests in one behaviour
MaxOrder == 3        \* videos one reorder body names

\* ------------------------------------------------------- program constants
QuotaLimit == 10000          \* checkQuota: newQuotaUsed > 10000
CostUnit == 1                \* quotaCosts.playlists / playlistItems / videos
CostSearch == 100            \* quotaCosts.search
PlaylistCacheTTL == 1800     \* getPlaylist, getPlaylistVideos: cache 30 minutes
BatchSize == 10              \* handleImportPlaylist (enhanced): videos per batch
DetailBatchSize == 50        \* getVideoDetails: ids per videos request
CooldownSeconds == 3600      \* handleEnhancePlaylist: completed_at > now - 3600
MaxContentLength == 2000     \* sanitizeEnhancedContent: maxLength
MinContentLength == 10       \* sanitizeEnhancedContent: sanitized.length < 10
MaxPages == 10               \* getPlaylistVideos: maxPages
MaxPageSize == 50            \* getPlaylistVideos: Math.min(maxResults, 50)
AnalysisTTL == 604800        \* cacheExpiration: 7 * 24 * 60 * 60
DefaultConfidence == 80      \* result.confidence || 0.8, in hundredths

VARIABLES
    now,      \* strftime('%s','now') / Date.now()/1000, seconds within the day
    ticks,    \* clock advances so far (bounds the behaviour)
    calls,    \* calls started so far (bounds the behaviour)
    quota,    \* today's youtube_quota_usage row, or NoRow
    granted,  \* history: units and number of the reservations that succeeded today
    cache,    \* the youtube_cache row of the cache key in use, or NoRow
    call,     \* per caller: the position and locals of its call in flight
    job,      \* the youtube_imports row of the import request, or NoRow
    imp,      \* handleImportPlaylist: its position and locals
    enh,      \* enhancement_history rows of the playlist, in insertion order
    playlist, \* the playlists row: its enhancement columns
    usage,    \* the ai_usage_tracking row of (user, today, model), or NoRow
    eh,       \* per caller: handleEnhancePlaylist's position and locals
    rows,     \* playlist_videos rows of the playlist: video id -> position
    video_count,  \* playlists.video_count
    vh,       \* per caller: the playlist-video handler's position and locals
    comp,     \* YouTubeAPI.importPlaylist: its position and locals
    pg,       \* YouTubeAPI.getPlaylistVideos: its position and locals
    ca,       \* content_analysis rows and getCachedOrAnalyze's position
    dur       \* parseDuration: its argument and its result

quotaVars == <<quota, granted>>
importVars == <<job, imp, comp>>
enhVars == <<enh, playlist, usage, eh>>
videoVars == <<rows, video_count, vh>>
utilVars == <<pg, ca, dur>>
\* What the quota ledger and the cache-fronted client never touch.
outsideFetch == <<importVars, enhVars, videoVars, utilVars>>
\* What handleEnhancePlaylist never touches (besides the clock and counters).
outsideEnhance ==
    <<cache, call, quotaVars, importVars, videoVars, utilVars>>
\* What the playlist-video handlers never touch (besides the counters).
outsideVideos ==
    <<cache, call, quotaVars, importVars, enhVars, utilVars>>
\* What handleImportPlaylist's own statements never touch.
outsideImport ==
    <<now, ticks, calls, cache, call, quotaVars, enhVars, videoVars, comp,
      utilVars>>
\* What YouTubeAPI.importPlaylist's control flow never touches.
outsideComposite ==
    <<now, ticks, calls, cache, call, quotaVars, enhVars, videoVars, utilVars>>
\* What the utilities (listing pager, analysis cache, duration parser)
\* never touch.
outsideUtils == <<cache, call, quotaVars, importVars, enhVars, videoVars>>

\* Two requests in flight: the least that interleaves.
Callers == {1, 2}
NoRow == [exists |-> FALSE]
Undefined == "undefined"

\* The objects the apiCall closure of getPlaylist returns: two upstream
\* answers, one of them without thumbnails (the property reads as undefined).
Payloads ==
    {[title |-> "a", thumbnails |-> Undefined], [title |-> "b", thumbnails |-> "url"]}

\* JSON.stringify drops a property whose value is undefined.
JSONStringify(v) ==
    IF v.thumbnails = Undefined
    THEN [title |-> v.title]
    ELSE [title |-> v.title, thumbnails |-> v.thumbnails]

\* JSON.parse: a property the text lacks reads as undefined.
JSONParse(s) ==
    [title |-> s.title,
     thumbnails |-> IF "thumbnails" \in DOMAIN s THEN s.thumbnails ELSE Undefined]

NoResult == [kind |-> "none"]
ErrorResult(e) == [kind |-> "error", error |-> e]

IdleCall ==
    [pc |-> "idle", op |-> "none", attempt |-> "none", cost |-> 0, ttl |-> 0,
     qread |-> 0, cached |-> Undefined, data |-> Undefined,
     result |-> NoResult, log |-> <<>>]

\* ------------------------------------------------------------ quota ledger

\* The quota rows a day can have reached before the modelled calls start:
\* none yet, or a row that unit-cost reservations brought close to the limit.
QuotaInit ==
    {NoRow} \cup
    {[exists |-> TRUE, quota_used |-> QuotaLimit - h, requests_count |-> QuotaLimit - h]
        : h \in 0 .. Headroom}

GrantedInit(q) ==
    IF q = NoRow THEN [units |-> 0, count |-> 0]
    ELSE [units |-> q.quota_used, count |-> q.requests_count]

\* Mutant of Thrown: the closure does not await checkQuota, so the rejection
\* is lost and makeRequest runs.
ThrownNotAwaited(c, e) ==
    IF e = "QuotaExceeded" THEN [c EXCEPT !.pc = "request"]
    ELSE IF c.attempt = "primary"
    THEN [c EXCEPT !.pc = "q_select", !.attempt = "fallback"]
    ELSE [c EXCEPT !.pc = "done", !.result = ErrorResult(e)]

\* Mutant of Thrown: a quota rejection falls back to whatever row the cache
\* holds for the key, however old.
ThrownServesStale(c, e) ==
    IF e = "QuotaExceeded" /\ cache # NoRow
    THEN [c EXCEPT !.pc = "done",
                   !.result = [kind |-> "payload", from |-> "cache",
                               data |-> JSONParse(cache.data)]]
    ELSE IF c.attempt = "primary"
    THEN [c EXCEPT !.pc = "q_select", !.attempt = "fallback"]
    ELSE [c EXCEPT !.pc = "done", !.result = ErrorResult(e)]

\* A throw out of the apiCall closure.  In getCachedOrFetch the first run of
\* the closure is inside the try block, whose catch runs the closure again;
\* a throw of that second run (or of a bare checkQuota) reaches the caller.
Thrown(c, e) ==
    IF c.attempt = "primary"
    THEN [c EXCEPT !.pc = "q_select", !.attempt = "fallback"]
    ELSE [c EXCEPT !.pc = "done", !.result = ErrorResult(e)]

\* A bare reservation: checkQuota(cost) called directly.
StartReserve(p) ==
    /\ call[p].pc = "idle"
    /\ calls < MaxCalls
    /\ calls' = calls + 1
    /\ \E c \in {CostUnit, CostSearch} :
          call' = [call EXCEPT ![p] =
                     [IdleCall EXCEPT !.pc = "q_select", !.op = "reserve",
                                      !.attempt = "direct", !.cost = c]]
    /\ UNCHANGED <<now, ticks, cache, quotaVars>>
    /\ UNCHANGED outsideFetch

\* checkQuota: SELECT * FROM youtube_quota_usage WHERE date = today
CheckQuotaSelect(p) ==
    /\ call[p].pc = "q_select"
    /\ call' = [call EXCEPT ![p] =
                 IF quota = NoRow
                 THEN [@ EXCEPT !.pc = "q_insert"]
                 ELSE [@ EXCEPT !.pc = "q_update", !.qread = quota.quota_used]]
    /\ UNCHANGED <<now, ticks, calls, cache, quotaVars>>
    /\ UNCHANGED outsideFetch

\* checkQuota: INSERT the day's row with 0 units; UNIQUE(date) rejects a
\* second row for the day, and the error leaves checkQuota.
CheckQuotaInsert(p) ==
    /\ call[p].pc = "q_insert"
    /\ IF quota # NoRow
       THEN /\ call' = [call EXCEPT ![p] =
                          Thrown([@ EXCEPT !.log = Append(@, "insert_conflict")],
                                 "DBError")]
            /\ UNCHANGED quota
       ELSE /\ quota' = [exists |-> TRUE, quota_used |-> 0, requests_count |-> 0]
            /\ call' = [call EXCEPT ![p] = [@ EXCEPT !.pc = "q_update", !.qread = 0]]
    /\ UNCHANGED <<now, ticks, calls, cache, granted>>
    /\ UNCHANGED outsideFetch

\* The test of checkQuota, on the quota_used the SELECT returned.
ExceedsBudget(used, cost) == used + cost > QuotaLimit

\* An UPDATE that writes back the sum the test computed:
QuotaAfterStaleUpdate(q, read, cost) ==
    [q EXCEPT !.quota_used = read + cost, !.requests_count = @ + 1]

\* UPDATE youtube_quota_usage SET quota_used = quota_used + ?,
\* requests_count = requests_count + 1 WHERE date = ?
QuotaAfterUpdate(q, read, cost) ==
    [q EXCEPT !.quota_used = @ + cost, !.requests_count = @ + 1]

\* checkQuota: the test on the value read, then the UPDATE.
CheckQuotaUpdate(p) ==
    /\ call[p].pc = "q_update"
    /\ IF ExceedsBudget(call[p].qread, call[p].cost)
       THEN /\ call' = [call EXCEPT ![p] =
                          Thrown([@ EXCEPT !.log = Append(@, "rejected")],
                                 "QuotaExceeded")]
            /\ UNCHANGED quotaVars
       ELSE /\ quota' = QuotaAfterUpdate(quota, call[p].qread, call[p].cost)
            /\ granted' = [units |-> granted.units + call[p].cost,
                           count |-> granted.count + 1]
            /\ call' = [call EXCEPT ![p] =
                          IF @.op = "reserve"
                          THEN [@ EXCEPT !.pc = "done", !.log = Append(@, "reserved"),
                                         !.result = [kind |-> "ok"]]
                          ELSE [@ EXCEPT !.pc = "request", !.log = Append(@, "reserved")]]
    /\ UNCHANGED <<now, ticks, calls, cache>>
    /\ UNCHANGED outsideFetch

\* The handler returns; the caller is free for the next request.
Return(p) ==
    /\ call[p].pc = "done"
    /\ call' = [call EXCEPT ![p] = IdleCall]
    /\ UNCHANGED <<now, ticks, calls, cache, quotaVars>>
    /\ UNCHANGED outsideFetch

\* ------------------------------------------------- cache-fronted upstream call

\* Mutant of LiveRow: the comparison admits the second of expiration.
LiveRowInclusive(row, t) == row # NoRow /\ row.expires_at >= t

\* The WHERE clause of the cache read: expires_at > strftime('%s','now')
LiveRow(row, t) == row # NoRow /\ row.expires_at > t

\* getPlaylist: getCachedOrFetch(cacheKey, 'playlist', apiCall, 1800); the
\* closure reserves quotaCosts.playlists before makeRequest.
StartFetch(p) ==
    /\ call[p].pc = "idle"
    /\ calls < MaxCalls
    /\ calls' = calls + 1
    /\ call' = [call EXCEPT ![p] =
                 [IdleCall EXCEPT !.pc = "select", !.op = "fetch",
                                  !.attempt = "primary", !.cost = CostUnit,
                                  !.ttl = PlaylistCacheTTL]]
    /\ UNCHANGED <<now, ticks, cache, quotaVars>>
    /\ UNCHANGED outsideFetch

\* getCachedOrFetch: SELECT data FROM youtube_cache WHERE cache_key = ? AND
\* expires_at > now.  A failing statement throws into the catch block, which
\* runs apiCall directly.
CacheSelect(p) ==
    /\ call[p].pc = "select"
    /\ \E ok \in BOOLEAN :
          call' = [call EXCEPT ![p] =
                     IF ~ok
                     THEN [@ EXCEPT !.pc = "q_select", !.attempt = "fallback",
                                    !.log = Append(@, "select_failed")]
                     ELSE IF LiveRow(cache, now)
                     THEN [@ EXCEPT !.pc = "touch", !.cached = cache.data,
                                    !.log = Append(@, "hit")]
                     ELSE [@ EXCEPT !.pc = "q_select", !.log = Append(@, "miss")]]
    /\ UNCHANGED <<now, ticks, calls, cache, quotaVars>>
    /\ UNCHANGED outsideFetch

\* getCachedOrFetch on a hit: UPDATE youtube_cache SET accessed_count =
\* accessed_count + 1, last_accessed = now WHERE cache_key = ?; then
\* return JSON.parse(cached.data).  A failing UPDATE throws into the catch.
CacheTouch(p) ==
    /\ call[p].pc = "touch"
    /\ \E ok \in BOOLEAN :
          IF ok
          THEN /\ cache' = IF cache = NoRow THEN cache
                           ELSE [cache EXCEPT !.accessed_count = @ + 1,
                                              !.last_accessed = now]
               /\ call' = [call EXCEPT ![p] =
                             [@ EXCEPT !.pc = "done",
                                       !.log = Append(@, "touched"),
                                       !.result = [kind |-> "payload", from |-> "cache",
                                                   data |-> JSONParse(call[p].cached)]]]
          ELSE /\ call' = [call EXCEPT ![p] =
                             [@ EXCEPT !.pc = "q_select", !.attempt = "fallback",
                                       !.log = Append(@, "touch_failed")]]
               /\ UNCHANGED cache
    /\ UNCHANGED <<now, ticks, calls, quotaVars>>
    /\ UNCHANGED outsideFetch

\* makeRequest: fetch(url); a response that is not ok throws (so does the
\* closure of getPlaylist on an answer without items).
MakeRequest(p) ==
    /\ call[p].pc = "request"
    /\ \E ok \in BOOLEAN, d \in Payloads :
          call' = [call EXCEPT ![p] =
                     IF ~ok
                     THEN Thrown([@ EXCEPT !.log = Append(@, "request_failed")],
                                 "UpstreamFailure")
                     ELSE IF @.attempt = "primary"
                     THEN [@ EXCEPT !.pc = "store", !.data = d,
                                    !.log = Append(@, "request_ok")]
                     ELSE [@ EXCEPT !.pc = "done", !.data = d,
                                    !.log = Append(@, "request_ok"),
                                    !.result = [kind |-> "payload", from |-> "upstream",
                                                data |-> d]]]
    /\ UNCHANGED <<now, ticks, calls, cache, quotaVars>>
    /\ UNCHANGED outsideFetch

\* getCachedOrFetch after the fetch: INSERT OR REPLACE INTO youtube_cache
\* (id, cache_key, cache_type, data, expires_at) with expires_at =
\* floor(Date.now()/1000) + cacheDuration; accessed_count and last_accessed
\* take their column defaults.  A failing statement throws into the catch.
CacheStore(p) ==
    /\ call[p].pc = "store"
    /\ \E ok \in BOOLEAN :
          IF ok
          THEN /\ cache' = [exists |-> TRUE,
                            payload |-> call[p].data,   \* history: the object stored
                            data |-> JSONStringify(call[p].data),
                            expires_at |-> now + call[p].ttl,
                            accessed_count |-> 0,
                            last_accessed |-> now]
               /\ call' = [call EXCEPT ![p] =
                             [@ EXCEPT !.pc = "done", !.log = Append(@, "stored"),
                                       !.result = [kind |-> "payload", from |-> "upstream",
                                                   data |-> call[p].data]]]
          ELSE /\ call' = [call EXCEPT ![p] =
                             [@ EXCEPT !.pc = "q_select", !.attempt = "fallback",
                                       !.log = Append(@, "store_failed")]]
               /\ UNCHANGED cache
    /\ UNCHANGED <<now, ticks, calls, quotaVars>>
    /\ UNCHANGED outsideFetch

\* Time passes: by a second, or to the second before a 30-minute entry
\* written now expires.
TickCache ==
    /\ ticks < MaxTicks
    /\ ticks' = ticks + 1
    /\ \E d \in {1, PlaylistCacheTTL - 1} : now' = now + d
    /\ UNCHANGED <<calls, cache, call, quotaVars>>
    /\ UNCHANGED outsideFetch

\* ------------------------------------------------------------- import job
\* handleImportPlaylist exists in three files.  The handlers of api-worker.js
\* and youtube-worker.js are the same text ("basic"); the one of the enhanced
\* api worker ("enhanced") adds the daily limit, batches with a progress
\* update, and the analytics event.

ImportHandlers == {"basic", "enhanced"}

PendingJob ==
    [exists |-> TRUE, status |-> "pending", videos_imported |-> 0,
     total_videos |-> 0, progress_percentage |-> 0, error_message |-> "NULL"]

IdleImport ==
    [pc |-> "idle", handler |-> "none", n |-> 0, idx |-> 0,
     importedCount |-> 0, skipped |-> 0, error |-> "none", response |-> 0]

\* Math.round((importedCount / total) * 100) for 0 <= importedCount <= total.
ProgressPercentage(importedCount, total) ==
    (200 * importedCount + total) \div (2 * total)

\* A throw inside the inner try block: control goes to catch (importError).
ImportThrown(h, e) == [h EXCEPT !.pc = "catch", !.error = e]

\* Building the 201 body dereferences the row findById returned; findById
\* returns null when the row is gone or its query failed.
ResponseFromRow(h, found) ==
    IF found THEN [h EXCEPT !.pc = "done", !.response = 201]
    ELSE ImportThrown(h, "TypeError")

\* Token, body validation and (enhanced) the daily import limit.
StartImport ==
    /\ imp.pc = "idle"
    /\ \E hd \in ImportHandlers, outcome \in {"invalid", "limited", "ok"} :
        /\ outcome = "limited" => hd = "enhanced"
        /\ imp' = CASE outcome = "invalid" ->
                         [imp EXCEPT !.pc = "done", !.handler = hd, !.response = 400]
                    [] outcome = "limited" ->
                         [imp EXCEPT !.pc = "done", !.handler = hd, !.response = 403]
                    [] OTHER ->
                         [imp EXCEPT !.pc = "insert_job", !.handler = hd]
    /\ UNCHANGED job
    /\ UNCHANGED outsideImport

\* INSERT INTO youtube_imports (..., status, ...) VALUES (..., 'pending', ...);
\* it runs outside the inner try, so its failure goes to the outer catch.
InsertImportRecord ==
    /\ imp.pc = "insert_job"
    /\ \E ok \in BOOLEAN :
        IF ok
        THEN /\ job' = PendingJob
             /\ imp' = [imp EXCEPT !.pc = "import"]
        ELSE /\ imp' = [imp EXCEPT !.pc = "done", !.error = "DBError",
                                   !.response = 500]
             /\ UNCHANGED job
    /\ UNCHANGED outsideImport

\* youtubeAPI.importPlaylist: it throws, or it returns n videos.
CallImportPlaylist ==
    /\ imp.pc = "import"
    /\ \/ imp' = ImportThrown(imp, "ImportFailed")
       \/ \E n \in 0..MaxVideos : imp' = [imp EXCEPT !.pc = "create", !.n = n]
    /\ UNCHANGED job
    /\ UNCHANGED outsideImport

\* PlaylistDB.create reports a failure as {success: false}; the handler throws.
CreatePlaylistRecord ==
    /\ imp.pc = "create"
    /\ \E ok \in BOOLEAN :
        imp' = IF ok
               THEN [imp EXCEPT !.pc = IF imp.n = 0 THEN "finalize" ELSE "videos"]
               ELSE ImportThrown(imp, "CreateFailed")
    /\ UNCHANGED job
    /\ UNCHANGED outsideImport

\* The handler after the loop body ran for one video, importedCount being
\* the new count: the enhanced handler updates the progress after every
\* batch of BatchSize videos and after the last, partial batch.
LoopAdvanced(h, importedCount) ==
    LET idx == h.idx + 1
        batchEnd == idx % BatchSize = 0 \/ idx = h.n
    IN [h EXCEPT !.idx = idx, !.importedCount = importedCount,
                 !.pc = IF h.handler = "enhanced" /\ batchEnd THEN "progress"
                        ELSE IF idx = h.n THEN "finalize"
                        ELSE "videos"]

\* A loop without the inner try/catch: a failed insert ends the import.
VideoInsertedOrAbort(h, ok) ==
    IF ok THEN LoopAdvanced(h, h.importedCount + 1)
    ELSE ImportThrown(h, "DBError")

\* try { INSERT ...; importedCount++ } catch (videoError) { log }: a failed
\* insert is logged and skipped (`skipped` counts them; the code does not).
VideoInserted(h, ok) ==
    IF ok THEN LoopAdvanced(h, h.importedCount + 1)
    ELSE [LoopAdvanced(h, h.importedCount) EXCEPT !.skipped = @ + 1]

\* One INSERT INTO playlist_videos of the loop over importResult.videos.
InsertImportedVideo ==
    /\ imp.pc = "videos"
    /\ imp.idx < imp.n
    /\ \E ok \in BOOLEAN : imp' = VideoInserted(imp, ok)
    /\ UNCHANGED job
    /\ UNCHANGED outsideImport

\* UPDATE youtube_imports SET videos_imported = ?, progress_percentage = ?
UpdateImportProgress ==
    /\ imp.pc = "progress"
    /\ \E ok \in BOOLEAN :
        IF ok
        THEN /\ job' = [job EXCEPT
                          !.videos_imported = imp.importedCount,
                          !.progress_percentage =
                              ProgressPercentage(imp.importedCount, imp.n)]
             /\ imp' = [imp EXCEPT !.pc = IF imp.idx = imp.n THEN "finalize"
                                          ELSE "videos"]
        ELSE /\ imp' = ImportThrown(imp, "DBError")
             /\ UNCHANGED job
    /\ UNCHANGED outsideImport

\* UPDATE youtube_imports SET status = 'completed', videos_imported = ?,
\* total_videos = ? (the enhanced handler also sets progress_percentage = 100).
CompleteImport ==
    /\ imp.pc = "finalize"
    /\ \E ok \in BOOLEAN :
        IF ok
        THEN /\ job' = [job EXCEPT
                          !.status = "completed",
                          !.videos_imported = imp.importedCount,
                          !.total_videos = imp.n,
                          !.progress_percentage =
                              IF imp.handler = "enhanced" THEN 100 ELSE @]
             /\ imp' = [imp EXCEPT !.pc = "respond"]
        ELSE /\ imp' = ImportThrown(imp, "DBError")
             /\ UNCHANGED job
    /\ UNCHANGED outsideImport

\* trackEvent (enhanced; it swallows its own failure), PlaylistDB.findById
\* and the 201 response, all still inside the inner try block.
RespondImport ==
    /\ imp.pc = "respond"
    /\ \E found \in BOOLEAN : imp' = ResponseFromRow(imp, found)
    /\ UNCHANGED job
    /\ UNCHANGED outsideImport

\* catch (importError): UPDATE youtube_imports SET status = 'failed',
\* error_message = ?; then rethrow to the outer catch, which answers 500.
\* The UPDATE may itself throw; the outer catch answers 500 all the same.
CatchImportError ==
    /\ imp.pc = "catch"
    /\ \E ok \in BOOLEAN :
        IF ok
        THEN job' = [job EXCEPT !.status = "failed",
                                !.error_message = imp.error]
        ELSE UNCHANGED job
    /\ imp' = [imp EXCEPT !.pc = "done", !.response = 500]
    /\ UNCHANGED outsideImport

\* ------------------------------------------------------ composite import
\* YouTubeAPI.importPlaylist, statement by statement, in place of the
\* abstract CallImportPlaylist.  Each of its three fetches goes through
\* getCachedOrFetch; here a fetch either returns or throws.  Videos are
\* counted, not named: `listed` videos came out of the listing, `detailed`
\* of them have been asked for, `public` of those have a public detail record.

IdleComposite ==
    [pc |-> "idle", listed |-> 0, detailed |-> 0, public |-> 0,
     detailFailures |-> 0, error |-> "none"]

Min(a, b) == IF a < b THEN a ELSE b

\* catch (error) { throw new Error(`Failed to import playlist: ...`) }
CompositeThrown(c, e) == [c EXCEPT !.pc = "thrown", !.error = e]

\* getVideoDetails has no try/catch around a batch: the throw of one
\* getCachedOrFetch leaves the loop and importPlaylist
\* (`detailFailures` counts the throws; the code does not).
DetailBatchFailed(c) ==
    CompositeThrown([c EXCEPT !.detailFailures = @ + 1], "DetailFetchFailed")

\* if (videos.length === 0), on the listing, before the details are fetched.
EmptyImport(c) == c.listed = 0

\* const playlistData = await this.getPlaylist(playlistId)
GetPlaylistMetadata ==
    /\ imp.pc = "import"
    /\ comp.pc = "idle"
    /\ \E ok \in BOOLEAN :
        comp' = IF ok THEN [comp EXCEPT !.pc = "listing"]
                ELSE CompositeThrown(comp, "PlaylistFetchFailed")
    /\ UNCHANGED <<job, imp>>
    /\ UNCHANGED outsideComposite

\* const videos = await this.getPlaylistVideos(...), then the emptiness test.
GetPlaylistVideos ==
    /\ comp.pc = "listing"
    /\ \/ comp' = CompositeThrown(comp, "ListingFailed")
       \/ \E n \in 0..MaxVideos :
            LET c == [comp EXCEPT !.listed = n]
            IN comp' = IF EmptyImport(c)
                       THEN CompositeThrown(c, "NoPublicVideos")
                       ELSE [c EXCEPT !.pc = "details"]
    /\ UNCHANGED <<job, imp>>
    /\ UNCHANGED outsideComposite

\* One batch of getVideoDetails: up to DetailBatchSize ids in one fetch,
\* which throws or returns the detail records that exist, some of them public.
GetVideoDetailsBatch ==
    /\ comp.pc = "details"
    /\ LET upto == Min(comp.detailed + DetailBatchSize, comp.listed)
       IN \/ comp' = DetailBatchFailed(comp)
          \/ \E pub \in 0..(upto - comp.detailed) :
               comp' = [comp EXCEPT !.detailed = upto, !.public = @ + pub,
                                    !.pc = IF upto = comp.listed THEN "merge"
                                           ELSE "details"]
    /\ UNCHANGED <<job, imp>>
    /\ UNCHANGED outsideComposite

\* The merge, .filter(video => video.privacy === 'public') and the return:
\* importResult.videos are the listed videos with a public detail record.
ReturnImportResult ==
    /\ comp.pc = "merge"
    /\ comp' = [comp EXCEPT !.pc = "returned"]
    /\ imp' = [imp EXCEPT !.pc = "create", !.n = comp.public]
    /\ UNCHANGED job
    /\ UNCHANGED outsideComposite

\* The wrapped error reaches handleImportPlaylist's catch (importError).
ThrowImportFailed ==
    /\ imp.pc = "import"
    /\ comp.pc = "thrown"
    /\ comp' = [comp EXCEPT !.pc = "rethrown"]
    /\ imp' = ImportThrown(imp, "ImportFailed")
    /\ UNCHANGED job
    /\ UNCHANGED outsideComposite

\* ------------------------------------------------------------ enhancement
\* handleEnhancePlaylist of api-worker.js on one playlist of one user.  A
\* nullable column is a set: {} for NULL, {v} for the value v.  A piece of
\* content is its length after the markup is stripped and the text trimmed.

\* Lengths the AI oracle's content can have: empty, just too short, longer
\* than fits.
ContentLengths == {0, MinContentLength - 1, MaxContentLength + 1}

\* usage.totalTokens of the oracle's answers.
TokenCounts == {120, 350}

\* ContentPreparation.sanitizeEnhancedContent: [ok, content].
SanitizeEnhancedContent(len) ==
    IF len = 0 THEN [ok |-> FALSE, content |-> 0]
    ELSE LET cut == IF len > MaxContentLength THEN MaxContentLength ELSE len
         IN IF cut < MinContentLength THEN [ok |-> FALSE, content |-> 0]
            ELSE [ok |-> TRUE, content |-> cut]

NewPlaylist ==
    [ai_description |-> {}, enhanced |-> FALSE, enhancement_status |-> "none",
     last_enhanced_at |-> {}, enhancement_version |-> 1]

IdleEnhance ==
    [pc |-> "idle", id |-> 0, content |-> 0, tokens |-> 0,
     error |-> "none", response |-> 0]

\* The cooldown query with the window's start included:
RecentEnhancementInclusive(history, t) ==
    \E i \in DOMAIN history :
        \E at \in history[i].completed_at : at >= t - CooldownSeconds

\* SELECT id FROM enhancement_history WHERE playlist_id = ? AND
\* enhancement_type = 'description' AND completed_at > now - 3600.
\* A NULL completed_at compares as unknown and selects nothing.
RecentEnhancement(history, t) ==
    \E i \in DOMAIN history :
        \E at \in history[i].completed_at : at > t - CooldownSeconds

\* Trigger update_ai_usage_tracking: AFTER INSERT ON enhancement_history
\* WHEN NEW.status = 'completed', INSERT OR REPLACE the usage row with
\* requests_count + 1 and tokens_used + NEW.tokens_used (0 if absent).
UsageAfterInsert(u, new) ==
    IF new.status = "completed"
    THEN [exists |-> TRUE,
          requests_count |-> (IF u.exists THEN u.requests_count ELSE 0) + 1,
          tokens_used |-> (IF u.exists THEN u.tokens_used ELSE 0) + new.tokens_used]
    ELSE u

\* The same trigger without its WHEN clause:
PlaylistAfterAnyUpdate(pl, old, new) ==
    [pl EXCEPT !.enhancement_status = "completed",
               !.last_enhanced_at = new.completed_at,
               !.enhancement_version = @ + 1]

\* Trigger update_playlist_enhancement_status: AFTER UPDATE ON
\* enhancement_history WHEN NEW.status = 'completed' AND OLD.status != 'completed'.
PlaylistAfterUpdate(pl, old, new) ==
    IF new.status = "completed" /\ old.status # "completed"
    THEN [pl EXCEPT !.enhancement_status = "completed",
                    !.last_enhanced_at = new.completed_at,
                    !.enhancement_version = @ + 1]
    ELSE pl

\* A throw inside the inner try block: control goes to catch (aiError).
EnhanceThrown(h, e) == [h EXCEPT !.pc = "catch", !.error = e]

\* Token, API key, PlaylistDB.findById and the ownership test.
StartEnhance(p) ==
    /\ eh[p].pc = "idle"
    /\ calls < MaxCalls
    /\ calls' = calls + 1
    /\ \E outcome \in {"no_key", "not_found", "denied", "ok"} :
        eh' = [eh EXCEPT ![p] =
                 CASE outcome = "no_key" -> [@ EXCEPT !.pc = "done", !.response = 503]
                   [] outcome = "not_found" -> [@ EXCEPT !.pc = "done", !.response = 404]
                   [] outcome = "denied" -> [@ EXCEPT !.pc = "done", !.response = 403]
                   [] OTHER -> [@ EXCEPT !.pc = "cooldown"]]
    /\ UNCHANGED <<enh, playlist, usage>>
    /\ UNCHANGED <<now, ticks>>
    /\ UNCHANGED outsideEnhance

\* The cooldown query; a recent row answers 429.  Its failure goes to the
\* outer catch.
CheckCooldown(p) ==
    /\ eh[p].pc = "cooldown"
    /\ \E ok \in BOOLEAN :
        eh' = [eh EXCEPT ![p] =
                 IF ~ok THEN [@ EXCEPT !.pc = "done", !.error = "DBError",
                                       !.response = 500]
                 ELSE IF RecentEnhancement(enh, now)
                 THEN [@ EXCEPT !.pc = "done", !.response = 429]
                 ELSE [@ EXCEPT !.pc = "insert"]]
    /\ UNCHANGED <<enh, playlist, usage>>
    /\ UNCHANGED <<now, ticks, calls>>
    /\ UNCHANGED outsideEnhance

\* The reads of the videos and the preferences, then INSERT INTO
\* enhancement_history (..., status, ...) VALUES (..., 'processing', ...).
\* Any of them failing goes to the outer catch, with no row written.
InsertEnhancementRecord(p) ==
    /\ eh[p].pc = "insert"
    /\ \E ok \in BOOLEAN :
        IF ok
        THEN LET new == [status |-> "processing", completed_at |-> {},
                         tokens_used |-> 0, enhanced_content |-> {}]
             IN /\ enh' = Append(enh, new)
                /\ usage' = UsageAfterInsert(usage, new)
                /\ eh' = [eh EXCEPT ![p] = [@ EXCEPT !.pc = "oracle",
                                                     !.id = Len(enh) + 1]]
        ELSE /\ eh' = [eh EXCEPT ![p] = [@ EXCEPT !.pc = "done",
                                                  !.error = "DBError",
                                                  !.response = 500]]
             /\ UNCHANGED <<enh, usage>>
    /\ UNCHANGED playlist
    /\ UNCHANGED <<now, ticks, calls>>
    /\ UNCHANGED outsideEnhance

\* aiClient.enhancePlaylistDescription, the success test, the sanitizer.
CallOracle(p) ==
    /\ eh[p].pc = "oracle"
    /\ \/ eh' = [eh EXCEPT ![p] = EnhanceThrown(@, "OracleFailed")]
       \/ \E len \in ContentLengths, tk \in TokenCounts :
            LET clean == SanitizeEnhancedContent(len)
            IN eh' = [eh EXCEPT ![p] =
                        IF clean.ok
                        THEN [@ EXCEPT !.pc = "complete",
                                       !.content = clean.content,
                                       !.tokens = tk]
                        ELSE EnhanceThrown(@, "InvalidContent")]
    /\ UNCHANGED <<enh, playlist, usage>>
    /\ UNCHANGED <<now, ticks, calls>>
    /\ UNCHANGED outsideEnhance

\* UPDATE enhancement_history SET enhanced_content = ?, tokens_used = ?,
\* status = 'completed', completed_at = now WHERE id = ?, with its trigger.
CompleteEnhancement(p) ==
    /\ eh[p].pc = "complete"
    /\ \E ok \in BOOLEAN :
        IF ok
        THEN LET old == enh[eh[p].id]
                 new == [old EXCEPT !.status = "completed",
                                    !.completed_at = {now},
                                    !.tokens_used = eh[p].tokens,
                                    !.enhanced_content = {eh[p].content}]
             IN /\ enh' = [enh EXCEPT ![eh[p].id] = new]
                /\ playlist' = PlaylistAfterUpdate(playlist, old, new)
                /\ eh' = [eh EXCEPT ![p] = [@ EXCEPT !.pc = "write_back"]]
        ELSE /\ eh' = [eh EXCEPT ![p] = EnhanceThrown(@, "DBError")]
             /\ UNCHANGED <<enh, playlist>>
    /\ UNCHANGED usage
    /\ UNCHANGED <<now, ticks, calls>>
    /\ UNCHANGED outsideEnhance

\* PlaylistDB.update(aiDescription, enhanced: true), whose failure is
\* swallowed and whose result is not looked at; the analytics insert in its
\* own try/catch; the 200 response.
WriteBackPlaylist(p) ==
    /\ eh[p].pc = "write_back"
    /\ \E ok \in BOOLEAN :
        IF ok
        THEN playlist' = [playlist EXCEPT !.ai_description = {eh[p].content},
                                          !.enhanced = TRUE]
        ELSE UNCHANGED playlist
    /\ eh' = [eh EXCEPT ![p] = [@ EXCEPT !.pc = "done", !.response = 200]]
    /\ UNCHANGED <<enh, usage>>
    /\ UNCHANGED <<now, ticks, calls>>
    /\ UNCHANGED outsideEnhance

\* catch (aiError): UPDATE enhancement_history SET status = 'failed',
\* error_message = ?, completed_at = now; rethrow; the outer catch answers 500.
CatchEnhanceError(p) ==
    /\ eh[p].pc = "catch"
    /\ \E ok \in BOOLEAN :
        IF ok
        THEN LET old == enh[eh[p].id]
                 new == [old EXCEPT !.status = "failed", !.completed_at = {now}]
             IN /\ enh' = [enh EXCEPT ![eh[p].id] = new]
                /\ playlist' = PlaylistAfterUpdate(playlist, old, new)
        ELSE UNCHANGED <<enh, playlist>>
    /\ eh' = [eh EXCEPT ![p] = [@ EXCEPT !.pc = "done", !.response = 500]]
    /\ UNCHANGED usage
    /\ UNCHANGED <<now, ticks, calls>>
    /\ UNCHANGED outsideEnhance

ReturnEnhance(p) ==
    /\ eh[p].pc = "done"
    /\ eh' = [eh EXCEPT ![p] = IdleEnhance]
    /\ UNCHANGED <<enh, playlist, usage>>
    /\ UNCHANGED <<now, ticks, calls>>
    /\ UNCHANGED outsideEnhance

\* Time passes: a second, or one second less than the cooldown.
TickCooldown ==
    /\ ticks < MaxTicks
    /\ ticks' = ticks + 1
    /\ \E d \in {1, CooldownSeconds - 1} : now' = now + d
    /\ UNCHANGED <<calls, enhVars>>
    /\ UNCHANGED outsideEnhance

\* -------------------------------------------------------- playlist videos
\* The add-video and remove-video handlers on one playlist.  The handlers of
\* api-worker.js and youtube-worker.js are the same statements ("basic"); the
\* ones of the enhanced api worker ("enhanced") add the renumbering, the
\* recount and the analytics event.  A playlist_videos row is
\* [id |-> youtube_video_id, position |-> position]; UNIQUE(playlist_id,
\* youtube_video_id) allows one row per id.

VideoIds == 1..NumVideos
VideoHandlers == {"basic", "enhanced"}

\* The `position` of an add-video body: 0 stands for absent (or zero, which
\* `!videoPosition` takes for absent as well), the other is an explicit slot.
PositionInputs == {0, 2}

IdleVideo ==
    [pc |-> "idle", op |-> "none", handler |-> "none", video |-> 0,
     position |-> 0, old |-> 0, order |-> <<>>, idx |-> 0,
     failed |-> FALSE, response |-> 0]

\* The rows an import of n public videos leaves: playlistItems positions.
Imported(n) == {[id |-> i, position |-> i - 1] : i \in 1..n}

HasVideo(rs, v) == \E r \in rs : r.id = v

\* A delete trigger that is missing leaves the count as it was:
VideoCountStale(count, rs) == count

\* Triggers update_playlist_video_count_insert / _delete: after the
\* statement, video_count = (SELECT COUNT(*) FROM playlist_videos ...).
VideoCountAfterInsert(count, rs) == Cardinality(rs)
VideoCountAfterDelete(count, rs) == Cardinality(rs)

\* SELECT MAX(position): NULL on no rows; (max_pos || 0) + 1.
NextPosition(rs) ==
    IF rs = {} THEN 1
    ELSE (CHOOSE m \in {r.position : r \in rs} :
              \A r \in rs : r.position <= m) + 1

VideoDone(h, code) == [h EXCEPT !.pc = "done", !.response = code]

\* A request that passes the token, body and URL validation, the playlist
\* lookup and the ownership test (the others return before any statement on
\* playlist_videos).
StartAddVideo(p) ==
    /\ vh[p].pc = "idle"
    /\ calls < MaxVideoOps
    /\ calls' = calls + 1
    /\ \E hd \in VideoHandlers, v \in VideoIds, pos \in PositionInputs :
        vh' = [vh EXCEPT ![p] =
                 [@ EXCEPT !.pc = "a_exists", !.op = "add", !.handler = hd,
                           !.video = v, !.position = pos]]
    /\ UNCHANGED <<rows, video_count>>
    /\ UNCHANGED <<now, ticks>>
    /\ UNCHANGED outsideVideos

\* SELECT id ... WHERE youtube_video_id = ? (409 if there), then
\* getVideoDetails (404 if it returns nothing, 500 if it throws).
AddCheckExisting(p) ==
    /\ vh[p].pc = "a_exists"
    /\ \E details \in {"found", "none", "failed"} :
        vh' = [vh EXCEPT ![p] =
                 IF HasVideo(rows, @.video) THEN VideoDone(@, 409)
                 ELSE IF details = "none" THEN VideoDone(@, 404)
                 ELSE IF details = "failed" THEN VideoDone(@, 500)
                 ELSE [@ EXCEPT !.pc = IF vh[p].position = 0 THEN "a_max"
                                       ELSE "a_insert"]]
    /\ UNCHANGED <<rows, video_count>>
    /\ UNCHANGED <<now, ticks, calls>>
    /\ UNCHANGED outsideVideos

\* if (!videoPosition): SELECT MAX(position); videoPosition = max + 1.
AddSelectMax(p) ==
    /\ vh[p].pc = "a_max"
    /\ \E ok \in BOOLEAN :
        vh' = [vh EXCEPT ![p] =
                 IF ok THEN [@ EXCEPT !.pc = "a_insert",
                                      !.position = NextPosition(rows)]
                 ELSE VideoDone(@, 500)]
    /\ UNCHANGED <<rows, video_count>>
    /\ UNCHANGED <<now, ticks, calls>>
    /\ UNCHANGED outsideVideos

\* INSERT INTO playlist_videos, which the UNIQUE constraint refuses when a
\* concurrent request inserted the same video; the insert trigger recounts.
AddInsert(p) ==
    /\ vh[p].pc = "a_insert"
    /\ \E ok \in BOOLEAN :
        IF ok /\ ~HasVideo(rows, vh[p].video)
        THEN LET rs == rows \cup {[id |-> vh[p].video,
                                   position |-> vh[p].position]}
             IN /\ rows' = rs
                /\ video_count' = VideoCountAfterInsert(video_count, rs)
                /\ vh' = [vh EXCEPT ![p] =
                            IF @.handler = "enhanced"
                            THEN [@ EXCEPT !.pc = "recount"]
                            ELSE VideoDone(@, 201)]
        ELSE /\ vh' = [vh EXCEPT ![p] = VideoDone(@, 500)]
             /\ UNCHANGED <<rows, video_count>>
    /\ UNCHANGED <<now, ticks, calls>>
    /\ UNCHANGED outsideVideos

\* One pass of handleImportPlaylist's loop on this playlist: the INSERT of a
\* video at its playlistItems position, inside try/catch.
ImportInsertVideo(p) ==
    /\ vh[p].pc = "idle"
    /\ calls < MaxVideoOps
    /\ calls' = calls + 1
    /\ \E v \in VideoIds, ok \in BOOLEAN :
        IF ok /\ ~HasVideo(rows, v)
        THEN LET rs == rows \cup {[id |-> v, position |-> v - 1]}
             IN /\ rows' = rs
                /\ video_count' = VideoCountAfterInsert(video_count, rs)
        ELSE UNCHANGED <<rows, video_count>>
    /\ UNCHANGED vh
    /\ UNCHANGED <<now, ticks>>
    /\ UNCHANGED outsideVideos

\* A request that passes the token, the playlist lookup and the ownership
\* test.
StartRemoveVideo(p) ==
    /\ vh[p].pc = "idle"
    /\ calls < MaxVideoOps
    /\ calls' = calls + 1
    /\ \E hd \in VideoHandlers, v \in VideoIds :
        vh' = [vh EXCEPT ![p] = [@ EXCEPT !.pc = "r_select", !.op = "remove",
                                          !.handler = hd, !.video = v]]
    /\ UNCHANGED <<rows, video_count>>
    /\ UNCHANGED <<now, ticks>>
    /\ UNCHANGED outsideVideos

\* SELECT id (enhanced: id, position) of the video; 404 if it is not there.
RemoveSelect(p) ==
    /\ vh[p].pc = "r_select"
    /\ vh' = [vh EXCEPT ![p] =
                IF HasVideo(rows, @.video)
                THEN [@ EXCEPT !.pc = "r_delete",
                               !.position =
                                   (CHOOSE r \in rows : r.id = vh[p].video).position]
                ELSE VideoDone(@, 404)]
    /\ UNCHANGED <<rows, video_count>>
    /\ UNCHANGED <<now, ticks, calls>>
    /\ UNCHANGED outsideVideos

\* DELETE FROM playlist_videos WHERE ... youtube_video_id = ?; the delete
\* trigger recounts for each row deleted.  The basic handlers answer 200 here.
RemoveDelete(p) ==
    /\ vh[p].pc = "r_delete"
    /\ \E ok \in BOOLEAN :
        IF ok
        THEN LET rs == {r \in rows : r.id # vh[p].video}
             IN /\ rows' = rs
                /\ video_count' = IF rs # rows
                                  THEN VideoCountAfterDelete(video_count, rs)
                                  ELSE video_count
                /\ vh' = [vh EXCEPT ![p] =
                            IF @.handler = "enhanced"
                            THEN [@ EXCEPT !.pc = "r_renumber"]
                            ELSE VideoDone(@, 200)]
        ELSE /\ vh' = [vh EXCEPT ![p] = VideoDone(@, 500)]
             /\ UNCHANGED <<rows, video_count>>
    /\ UNCHANGED <<now, ticks, calls>>
    /\ UNCHANGED outsideVideos

\* UPDATE playlist_videos SET position = position - 1 WHERE position > ?
RemoveRenumber(p) ==
    /\ vh[p].pc = "r_renumber"
    /\ \E ok \in BOOLEAN :
        IF ok
        THEN /\ rows' = {IF r.position > vh[p].position
                         THEN [r EXCEPT !.position = @ - 1] ELSE r : r \in rows}
             /\ vh' = [vh EXCEPT ![p] = [@ EXCEPT !.pc = "recount"]]
        ELSE /\ vh' = [vh EXCEPT ![p] = VideoDone(@, 500)]
             /\ UNCHANGED rows
    /\ UNCHANGED video_count
    /\ UNCHANGED <<now, ticks, calls>>
    /\ UNCHANGED outsideVideos

\* PlaylistDB.updateVideoCount, then trackEvent (which swallows its failure)
\* and the response.
UpdateVideoCount(p) ==
    /\ vh[p].pc = "recount"
    /\ \E ok \in BOOLEAN :
        IF ok
        THEN /\ video_count' = Cardinality(rows)
             /\ vh' = [vh EXCEPT ![p] =
                         VideoDone(@, IF @.op = "add" THEN 201 ELSE 200)]
        ELSE /\ vh' = [vh EXCEPT ![p] = VideoDone(@, 500)]
             /\ UNCHANGED video_count
    /\ UNCHANGED rows
    /\ UNCHANGED <<now, ticks, calls>>
    /\ UNCHANGED outsideVideos

ReturnVideo(p) ==
    /\ vh[p].pc = "done"
    /\ vh' = [vh EXCEPT ![p] = IdleVideo]
    /\ UNCHANGED <<rows, video_count>>
    /\ UNCHANGED <<now, ticks, calls>>
    /\ UNCHANGED outsideVideos

\* ----------------------------------------------------- position updates
\* handleUpdateVideoPosition: the basic handlers (api-worker.js,
\* youtube-worker.js) set the position of the one video; the enhanced one
\* calls updateVideoPosition, which shifts the videos in between first.

\* Positions a request asks for (validatePositionUpdate admits 0..10000).
NewPositions == {0, 2}

\* A request that passes the token, the body and position validation, the
\* playlist lookup and the ownership test.
StartUpdatePosition(p) ==
    /\ vh[p].pc = "idle"
    /\ calls < MaxVideoOps
    /\ calls' = calls + 1
    /\ \E hd \in VideoHandlers, v \in VideoIds, pos \in NewPositions :
        vh' = [vh EXCEPT ![p] =
                 [@ EXCEPT !.pc = IF hd = "basic" THEN "m_update" ELSE "m_select",
                           !.op = "move", !.handler = hd, !.video = v,
                           !.position = pos]]
    /\ UNCHANGED <<rows, video_count>>
    /\ UNCHANGED <<now, ticks>>
    /\ UNCHANGED outsideVideos

\* Basic: UPDATE playlist_videos SET position = ? WHERE ... youtube_video_id
\* = ?; 404 when no row changed, 500 when the statement throws.
UpdatePositionBasic(p) ==
    /\ vh[p].pc = "m_update"
    /\ \E ok \in BOOLEAN :
        IF ok /\ HasVideo(rows, vh[p].video)
        THEN /\ rows' = {IF r.id = vh[p].video
                         THEN [r EXCEPT !.position = vh[p].position] ELSE r :
                         r \in rows}
             /\ vh' = [vh EXCEPT ![p] = VideoDone(@, 200)]
        ELSE /\ vh' = [vh EXCEPT ![p] = VideoDone(@, IF ok THEN 404 ELSE 500)]
             /\ UNCHANGED rows
    /\ UNCHANGED video_count
    /\ UNCHANGED <<now, ticks, calls>>
    /\ UNCHANGED outsideVideos

\* updateVideoPosition: SELECT id, position of the video; not found or a
\* throw is { success: false } (404); at its place already is success.
MoveSelect(p) ==
    /\ vh[p].pc = "m_select"
    /\ \E ok \in BOOLEAN :
        vh' = [vh EXCEPT ![p] =
                 IF ~ok \/ ~HasVideo(rows, vh[p].video) THEN VideoDone(@, 404)
                 ELSE LET old == (CHOOSE r \in rows : r.id = vh[p].video).position
                      IN IF old = vh[p].position THEN VideoDone(@, 200)
                         ELSE [@ EXCEPT !.pc = "m_shift", !.old = old]]
    /\ UNCHANGED <<rows, video_count>>
    /\ UNCHANGED <<now, ticks, calls>>
    /\ UNCHANGED outsideVideos

\* Moving down: position - 1 WHERE position > old AND position <= new;
\* moving up: position + 1 WHERE position >= new AND position < old.
MoveShift(p) ==
    /\ vh[p].pc = "m_shift"
    /\ \E ok \in BOOLEAN :
        IF ok
        THEN LET old == vh[p].old
                 new == vh[p].position
             IN /\ rows' =
                     {IF new > old /\ r.position > old /\ r.position <= new
                      THEN [r EXCEPT !.position = @ - 1]
                      ELSE IF new < old /\ r.position >= new /\ r.position < old
                      THEN [r EXCEPT !.position = @ + 1]
                      ELSE r : r \in rows}
                /\ vh' = [vh EXCEPT ![p] = [@ EXCEPT !.pc = "m_set"]]
        ELSE /\ vh' = [vh EXCEPT ![p] = VideoDone(@, 404)]
             /\ UNCHANGED rows
    /\ UNCHANGED video_count
    /\ UNCHANGED <<now, ticks, calls>>
    /\ UNCHANGED outsideVideos

\* UPDATE playlist_videos SET position = ? WHERE id = ? (the row selected
\* at first, if it is still there); then trackEvent and the response.
MoveSet(p) ==
    /\ vh[p].pc = "m_set"
    /\ \E ok \in BOOLEAN :
        IF ok
        THEN /\ rows' = {IF r.id = vh[p].video
                         THEN [r EXCEPT !.position = vh[p].position] ELSE r :
                         r \in rows}
             /\ vh' = [vh EXCEPT ![p] = VideoDone(@, 200)]
        ELSE /\ vh' = [vh EXCEPT ![p] = VideoDone(@, 404)]
             /\ UNCHANGED rows
    /\ UNCHANGED video_count
    /\ UNCHANGED <<now, ticks, calls>>
    /\ UNCHANGED outsideVideos

\* ------------------------------------------------------------ reorder
\* handleReorderVideos (enhanced handler only): the body's videoOrder is an
\* array of { videoId }; the video at index i gets position i + 1, one
\* UPDATE statement per element, all awaited together by Promise.all.

RECURSIVE SeqsOver(_, _)
SeqsOver(S, n) ==
    IF n = 0 THEN {<<>>}
    ELSE LET shorter == SeqsOver(S, n - 1)
         IN shorter \cup {Append(s, v) : s \in {t \in shorter : Len(t) = n - 1},
                                         v \in S}

\* videoOrder bodies: non-empty arrays naming each video at most once.
VideoOrders ==
    {s \in SeqsOver(VideoIds, MaxOrder) :
        /\ Len(s) > 0
        /\ \A i, j \in 1..Len(s) : s[i] = s[j] => i = j}

\* A request that passes the token, the body, the playlist lookup, the
\* ownership test and `Array.isArray(videoOrder) && length > 0`.
StartReorder(p) ==
    /\ vh[p].pc = "idle"
    /\ calls < MaxVideoOps
    /\ calls' = calls + 1
    /\ \E vo \in VideoOrders :
        vh' = [vh EXCEPT ![p] =
                 [@ EXCEPT !.pc = "r_write", !.op = "reorder",
                           !.handler = "enhanced", !.order = vo, !.idx = 0,
                           !.failed = FALSE]]
    /\ UNCHANGED <<rows, video_count>>
    /\ UNCHANGED <<now, ticks>>
    /\ UNCHANGED outsideVideos

\* One of the UPDATE playlist_videos SET position = index + 1 statements;
\* each is its own statement on the database. A statement that fails
\* rejects the Promise.all (500) and does not stop the others.
ReorderWrite(p) ==
    /\ vh[p].pc = "r_write"
    /\ LET i == vh[p].idx + 1
           last == i = Len(vh[p].order)
       IN \E ok \in BOOLEAN :
            LET failed == vh[p].failed \/ ~ok
            IN /\ rows' = IF ok
                          THEN {IF r.id = vh[p].order[i]
                                THEN [r EXCEPT !.position = i] ELSE r :
                                r \in rows}
                          ELSE rows
               /\ vh' = [vh EXCEPT ![p] =
                           [@ EXCEPT !.idx = i, !.failed = failed,
                                     !.pc = IF last THEN "done" ELSE "r_write",
                                     !.response = IF ~last THEN 0
                                                  ELSE IF failed THEN 500
                                                  ELSE 200]]
    /\ UNCHANGED video_count
    /\ UNCHANGED <<now, ticks, calls>>
    /\ UNCHANGED outsideVideos

\* --------------------------------------------------------- parseDuration
\* YouTubeAPI.parseDuration. A duration argument is null (or ''), a string
\* the pattern does not match, or a token PT[nH][nM][nS]; a component is a
\* set: empty when the token lacks it. The result is the list of the
\* fields between the colons, each field the list of its decimal digits.

ComponentInputs == {{}, {0}, {1}, {2}, {3}, {5}, {9}, {45}}

DurationInputs ==
    {[kind |-> "null"], [kind |-> "nomatch"]} \cup
    {[kind |-> "PT", h |-> h, m |-> m, s |-> s] :
        h \in ComponentInputs, m \in ComponentInputs, s \in ComponentInputs}

\* parseInt(match[i]) || 0: an absent group is undefined, parseInt gives NaN.
ParseIntOrZero(c) == IF c = {} THEN 0 ELSE CHOOSE n \in c : TRUE

\* Number.prototype.toString()
RECURSIVE ToDigits(_)
ToDigits(n) == IF n < 10 THEN <<n>> ELSE Append(ToDigits(n \div 10), n % 10)

\* toString() without the padding:
NoPadStart(n) == ToDigits(n)

\* n.toString().padStart(2, '0')
PadStart(n) == IF n < 10 THEN <<0, n>> ELSE ToDigits(n)

ZeroDuration == <<<<0>>, <<0, 0>>>>

parseDuration(duration) ==
    IF duration.kind \in {"null", "nomatch"} THEN ZeroDuration
    ELSE LET hours == ParseIntOrZero(duration.h)
             minutes == ParseIntOrZero(duration.m)
             seconds == ParseIntOrZero(duration.s)
         IN IF hours > 0
            THEN <<ToDigits(hours), PadStart(minutes), PadStart(seconds)>>
            ELSE <<ToDigits(minutes), PadStart(seconds)>>

NoDuration == [pc |-> "idle", duration |-> [kind |-> "null"], out |-> <<>>]

\* One call of parseDuration on the argument at hand.
ParseDuration ==
    /\ dur.pc = "called"
    /\ dur' = [dur EXCEPT !.pc = "returned", !.out = parseDuration(dur.duration)]
    /\ UNCHANGED <<now, ticks, calls, pg, ca>>
    /\ UNCHANGED outsideUtils

\* -------------------------------------------------- getPlaylistVideos
\* YouTubeAPI.getPlaylistVideos: a do-while loop over the pages of the
\* playlistItems listing. Each page goes through getCachedOrFetch; here
\* the page is what that call returns (or that it throws).

\* maxResults of a call (validateImport admits 1..500; importPlaylist's
\* default is 100).
MaxResultsInputs == {1, 60, 100}


IdlePager ==
    [pc |-> "idle", maxResults |-> 0, videos |-> 0, pageCount |-> 0,
     fetched |-> 0, token |-> FALSE]

\* maxResults: Math.min(maxResults, 50) of the playlistItems request.
PageSize(maxResults) == Min(maxResults, MaxPageSize)

\* Public videos of one page of an upstream that honours maxResults.
PublicOnPage(maxResults) == {0, 1, PageSize(maxResults)}

\* while (nextPageToken) alone:
MoreWantedWhileCursor(token, videos, maxResults) == token

\* while (nextPageToken && videos.length < maxResults)
MoreWanted(token, videos, maxResults) == token /\ videos < maxResults

StartGetPlaylistVideos ==
    /\ pg.pc = "idle"
    /\ calls < MaxCalls
    /\ calls' = calls + 1
    /\ \E m \in MaxResultsInputs :
        pg' = [IdlePager EXCEPT !.pc = "loop", !.maxResults = m]
    /\ UNCHANGED <<now, ticks, ca, dur>>
    /\ UNCHANGED outsideUtils

\* pageCount++; if (pageCount > maxPages) break;
PageLoopHead ==
    /\ pg.pc = "loop"
    /\ pg' = [pg EXCEPT !.pageCount = @ + 1,
                        !.pc = IF pg.pageCount + 1 > MaxPages
                               THEN "returned" ELSE "fetch"]
    /\ UNCHANGED <<now, ticks, calls, ca, dur>>
    /\ UNCHANGED outsideUtils

\* await getCachedOrFetch(...): throws, or gives a page whose public items
\* are pushed; nextPageToken = pageData.nextPageToken; the loop test.
FetchPage ==
    /\ pg.pc = "fetch"
    /\ \/ pg' = [pg EXCEPT !.pc = "thrown", !.fetched = @ + 1]
       \/ \E k \in PublicOnPage(pg.maxResults), t \in BOOLEAN :
            pg' = [pg EXCEPT !.videos = @ + k, !.token = t,
                             !.fetched = @ + 1,
                             !.pc = IF MoreWanted(t, pg.videos + k,
                                                  pg.maxResults)
                                    THEN "loop" ELSE "returned"]
    /\ UNCHANGED <<now, ticks, calls, ca, dur>>
    /\ UNCHANGED outsideUtils

\* The caller takes the array (or the error); the next call may start.
ReturnPlaylistVideos ==
    /\ pg.pc \in {"returned", "thrown"}
    /\ pg' = IdlePager
    /\ UNCHANGED <<now, ticks, calls, ca, dur>>
    /\ UNCHANGED outsideUtils

\* ------------------------------------------------------ analysis cache
\* ContentAnalysisEngine.getCachedOrAnalyze / storeAnalysis for one
\* (playlist, analysis type) pair; content_analysis has
\* UNIQUE(playlist_id, analysis_type).

AnalysisTypes == {"topics", "difficulty", "custom"}

\* confidence of a heuristic's result, in hundredths; 0 stands for a
\* result without one (or with 0), which `|| 0.8` stores as 0.8.
Confidences == {0, 60}
StoredConfidence(c) == IF c = 0 THEN DefaultConfidence ELSE c

\* getDefaultAnalysis: defaults[analysisType] || {}
getDefaultAnalysis(type) ==
    IF type \in {"topics", "difficulty"} THEN [default |-> type]
    ELSE [default |-> "empty"]

NoAnalysisResult == [kind |-> "none"]

\* A catch block that lets the error through:
AnalysisRethrown(type, e) == [kind |-> "thrown", error |-> e]

\* catch (error): { cached: false, data: default, confidence: 0.0, error }
AnalysisCaught(type, e) ==
    [kind |-> "value", cached |-> FALSE, data |-> getDefaultAnalysis(type),
     confidence |-> 0, error |-> e]

IdleAnalysis ==
    [pc |-> "idle", req |-> 0, fresh |-> Undefined, ran |-> 0,
     failed |-> FALSE, result |-> NoAnalysisResult]

NoAnalysis(type) ==
    [type |-> type, rows |-> {}, h |-> [p \in Callers |-> IdleAnalysis]]

\* A plain INSERT on a table without the UNIQUE constraint:
AnalysisRowsAfterInsert(rs, new) == rs \cup {new}

\* INSERT OR REPLACE: the rows in conflict on UNIQUE(playlist_id,
\* analysis_type) (or on the id) are deleted, the new one is inserted.
AnalysisRowsAfterReplace(rs, new) == {new}

AnalysisDone(p, res) ==
    [ca EXCEPT !.h[p].pc = "done", !.h[p].result = res]

StartAnalyze(p) ==
    /\ ca.h[p].pc = "idle"
    /\ calls < MaxCalls
    /\ calls' = calls + 1
    /\ ca' = [ca EXCEPT !.h[p] = [IdleAnalysis EXCEPT !.pc = "select",
                                                       !.req = calls + 1]]
    /\ UNCHANGED <<now, ticks, pg, dur>>
    /\ UNCHANGED outsideUtils

\* SELECT ... WHERE expires_at > strftime('%s','now'); a row found is
\* returned with cached: true and data: JSON.parse(analysis_data).
AnalyzeSelect(p) ==
    /\ ca.h[p].pc = "select"
    /\ \E ok \in BOOLEAN :
        LET live == {r \in ca.rows : LiveRow(r, now)}
        IN IF ~ok THEN ca' = AnalysisDone(p, AnalysisCaught(ca.type, "select"))
           ELSE IF live # {}
           THEN \E r \in live :
                  ca' = AnalysisDone(p,
                          [kind |-> "value", cached |-> TRUE,
                           data |-> JSONParse(r.analysis_data),
                           confidence |-> r.confidence_score,
                           error |-> "none"])
           ELSE ca' = [ca EXCEPT !.h[p].pc = "analyze"]
    /\ UNCHANGED <<now, ticks, calls, pg, dur>>
    /\ UNCHANGED outsideUtils

\* const result = await analysisFunction(); a throw lands in the catch.
RunHeuristic(p) ==
    /\ ca.h[p].pc = "analyze"
    /\ \/ ca' = [AnalysisDone(p, AnalysisCaught(ca.type, "heuristic"))
                   EXCEPT !.h[p].failed = TRUE, !.h[p].ran = 1]
       \/ \E d \in Payloads, c \in Confidences :
            ca' = [ca EXCEPT !.h[p].pc = "store", !.h[p].ran = 1,
                             !.h[p].fresh = [data |-> d, confidence |-> c]]
    /\ UNCHANGED <<now, ticks, calls, pg, dur>>
    /\ UNCHANGED outsideUtils

\* await this.storeAnalysis(...); return { cached: false, ...result }
StoreAnalysis(p) ==
    /\ ca.h[p].pc = "store"
    /\ \E ok \in BOOLEAN :
        IF ok
        THEN LET f == ca.h[p].fresh
                 new == [exists |-> TRUE, id |-> ca.h[p].req,
                         analysis_data |-> JSONStringify(f.data),
                         confidence_score |-> StoredConfidence(f.confidence),
                         expires_at |-> now + AnalysisTTL,
                         created_at |-> now]
             IN ca' = [AnalysisDone(p,
                          [kind |-> "value", cached |-> FALSE,
                           data |-> f.data, confidence |-> f.confidence,
                           error |-> "none"])
                       EXCEPT !.rows = AnalysisRowsAfterReplace(ca.rows, new)]
        ELSE ca' = AnalysisDone(p, AnalysisCaught(ca.type, "store"))
    /\ UNCHANGED <<now, ticks, calls, pg, dur>>
    /\ UNCHANGED outsideUtils

ReturnAnalysis(p) ==
    /\ ca.h[p].pc = "done"
    /\ ca' = [ca EXCEPT !.h[p] = IdleAnalysis]
    /\ UNCHANGED <<now, ticks, calls, pg, dur>>
    /\ UNCHANGED outsideUtils

TickAnalysis ==
    /\ ticks < MaxTicks
    /\ ticks' = ticks + 1
    /\ \E d \in {1, AnalysisTTL - 1} : now' = now + d
    /\ UNCHANGED <<calls, pg, ca, dur>>
    /\ UNCHANGED outsideUtils

\* ---------------------------------------------------------- cache sweep
\* YouTubeAPI.cleanExpiredCache: one DELETE over youtube_cache; the catch
\* answers 0.

\* A DELETE without the WHERE clause:
SweptAlways(row, t) == row # NoRow

\* WHERE expires_at < strftime('%s', 'now')
Swept(row, t) == row # NoRow /\ row.expires_at < t

StartSweep(p) ==
    /\ call[p].pc = "idle"
    /\ calls < MaxCalls
    /\ calls' = calls + 1
    /\ call' = [call EXCEPT ![p] =
                 [IdleCall EXCEPT !.pc = "sweep", !.op = "sweep"]]
    /\ UNCHANGED <<now, ticks, cache, quotaVars>>
    /\ UNCHANGED outsideFetch

\* return result.changes || 0; on a throw: return 0.
CleanExpiredCache(p) ==
    /\ call[p].pc = "sweep"
    /\ \E ok \in BOOLEAN :
        LET deleted == ok /\ Swept(cache, now)
        IN /\ cache' = IF deleted THEN NoRow ELSE cache
           /\ call' = [call EXCEPT ![p] =
                        [@ EXCEPT !.pc = "done",
                                  !.result = [kind |-> "count",
                                              n |-> IF deleted THEN 1 ELSE 0],
                                  !.log = <<IF ok THEN "swept"
                                            ELSE "sweep_failed">>]]
    /\ UNCHANGED <<now, ticks, calls, quotaVars>>
    /\ UNCHANGED outsideFetch

\* ------------------------------------------------------- specifications

FetchAtRest ==
    /\ cache = NoRow
    /\ call = [p \in Callers |-> IdleCall]

ImportAtRest ==
    /\ job = NoRow
    /\ imp = IdleImport
    /\ comp = IdleComposite

EnhanceAtRest ==
    /\ enh = <<>>
    /\ playlist = NewPlaylist
    /\ usage = NoRow
    /\ eh = [p \in Callers |-> IdleEnhance]

VideosAtRest ==
    /\ rows = {}
    /\ video_count = 0
    /\ vh = [p \in Callers |-> IdleVideo]

UtilsAtRest ==
    /\ pg = IdlePager
    /\ ca = NoAnalysis("topics")
    /\ dur = NoDuration

InitQuota ==
    /\ now = 0
    /\ ticks = 0
    /\ calls = 0
    /\ quota \in QuotaInit
    /\ granted = GrantedInit(quota)
    /\ FetchAtRest
    /\ ImportAtRest
    /\ EnhanceAtRest
    /\ VideosAtRest
    /\ UtilsAtRest

InitFetch == InitQuota

vars ==
    <<now, ticks, calls, quota, granted, cache, call, job, imp,
      enh, playlist, usage, eh, rows, video_count, vh, comp, pg, ca, dur>>

NextQuota ==
    \E p \in Callers :
        \/ StartReserve(p)
        \/ CheckQuotaSelect(p)
        \/ CheckQuotaInsert(p)
        \/ CheckQuotaUpdate(p)
        \/ Return(p)

SpecQuota == InitQuota /\ [][NextQuota]_vars

NextFetch ==
    \/ \E p \in Callers :
        \/ StartFetch(p)
        \/ CacheSelect(p)
        \/ CacheTouch(p)
        \/ CheckQuotaSelect(p)
        \/ CheckQuotaInsert(p)
        \/ CheckQuotaUpdate(p)
        \/ MakeRequest(p)
        \/ CacheStore(p)
        \/ Return(p)
    \/ TickCache

SpecFetch == InitFetch /\ [][NextFetch]_vars

\* Bare reservations of either cost among the fetches, within one day.
NextLedger ==
    \E p \in Callers :
        \/ StartReserve(p)
        \/ StartFetch(p)
        \/ CacheSelect(p)
        \/ CacheTouch(p)
        \/ CheckQuotaSelect(p)
        \/ CheckQuotaInsert(p)
        \/ CheckQuotaUpdate(p)
        \/ MakeRequest(p)
        \/ CacheStore(p)
        \/ Return(p)

SpecLedger == InitFetch /\ [][NextLedger]_vars

InitImport ==
    /\ now = 0
    /\ ticks = 0
    /\ calls = 0
    /\ quota = NoRow
    /\ granted = 0
    /\ FetchAtRest
    /\ ImportAtRest
    /\ EnhanceAtRest
    /\ VideosAtRest
    /\ UtilsAtRest

\* The cache-fronted client and the maintenance sweep on the same row.
NextSweep ==
    \/ \E p \in Callers :
        \/ StartFetch(p)
        \/ CacheSelect(p)
        \/ CacheTouch(p)
        \/ CheckQuotaSelect(p)
        \/ CheckQuotaInsert(p)
        \/ CheckQuotaUpdate(p)
        \/ MakeRequest(p)
        \/ CacheStore(p)
        \/ StartSweep(p)
        \/ CleanExpiredCache(p)
        \/ Return(p)
    \/ TickCache

\* The day starts without a quota row and with an empty cache.
InitSweep ==
    /\ now = 0
    /\ ticks = 0
    /\ calls = 0
    /\ quota = NoRow
    /\ granted = GrantedInit(NoRow)
    /\ FetchAtRest
    /\ ImportAtRest
    /\ EnhanceAtRest
    /\ VideosAtRest
    /\ UtilsAtRest

SpecSweep == InitSweep /\ [][NextSweep]_vars

NextImport ==
    \/ StartImport
    \/ InsertImportRecord
    \/ CallImportPlaylist
    \/ CreatePlaylistRecord
    \/ InsertImportedVideo
    \/ UpdateImportProgress
    \/ CompleteImport
    \/ RespondImport
    \/ CatchImportError

SpecImport == InitImport /\ [][NextImport]_vars

\* The import request with importPlaylist run statement by statement.
NextComposite ==
    \/ StartImport
    \/ InsertImportRecord
    \/ GetPlaylistMetadata
    \/ GetPlaylistVideos
    \/ GetVideoDetailsBatch
    \/ ReturnImportResult
    \/ ThrowImportFailed
    \/ CreatePlaylistRecord
    \/ InsertImportedVideo
    \/ UpdateImportProgress
    \/ CompleteImport
    \/ RespondImport
    \/ CatchImportError

SpecComposite == InitImport /\ [][NextComposite]_vars

InitEnhance == InitImport

NextEnhance ==
    \/ \E p \in Callers :
        \/ StartEnhance(p)
        \/ CheckCooldown(p)
        \/ InsertEnhancementRecord(p)
        \/ CallOracle(p)
        \/ CompleteEnhancement(p)
        \/ WriteBackPlaylist(p)
        \/ CatchEnhanceError(p)
        \/ ReturnEnhance(p)
    \/ TickCooldown

SpecEnhance == InitEnhance /\ [][NextEnhance]_vars

\* The playlist as an import of 0..NumVideos public videos left it.
InitVideos ==
    /\ now = 0
    /\ ticks = 0
    /\ calls = 0
    /\ quota = NoRow
    /\ granted = 0
    /\ FetchAtRest
    /\ ImportAtRest
    /\ EnhanceAtRest
    /\ UtilsAtRest
    /\ \E n \in 0..NumVideos :
          /\ rows = Imported(n)
          /\ video_count = VideoCountAfterInsert(0, Imported(n))
    /\ vh = [p \in Callers |-> IdleVideo]

NextVideos ==
    \E p \in Callers :
        \/ StartAddVideo(p)
        \/ AddCheckExisting(p)
        \/ AddSelectMax(p)
        \/ AddInsert(p)
        \/ ImportInsertVideo(p)
        \/ StartRemoveVideo(p)
        \/ RemoveSelect(p)
        \/ RemoveDelete(p)
        \/ RemoveRenumber(p)
        \/ UpdateVideoCount(p)
        \/ ReturnVideo(p)

SpecVideos == InitVideos /\ [][NextVideos]_vars

\* Adds, removals, import inserts and position updates, interleaved.
NextPositions ==
    \E p \in Callers :
        \/ StartAddVideo(p)
        \/ AddCheckExisting(p)
        \/ AddSelectMax(p)
        \/ AddInsert(p)
        \/ ImportInsertVideo(p)
        \/ StartRemoveVideo(p)
        \/ RemoveSelect(p)
        \/ RemoveDelete(p)
        \/ RemoveRenumber(p)
        \/ UpdateVideoCount(p)
        \/ StartUpdatePosition(p)
        \/ UpdatePositionBasic(p)
        \/ MoveSelect(p)
        \/ MoveShift(p)
        \/ MoveSet(p)
        \/ ReturnVideo(p)

SpecPositions == InitVideos /\ [][NextPositions]_vars

\* Reorder requests, alone or two at a time.
NextReorder ==
    \E p \in Callers :
        \/ StartReorder(p)
        \/ ReorderWrite(p)
        \/ ReturnVideo(p)

SpecReorder == InitVideos /\ [][NextReorder]_vars

\* The listing pager alone.
InitPager ==
    /\ now = 0
    /\ ticks = 0
    /\ calls = 0
    /\ quota = NoRow
    /\ granted = 0
    /\ FetchAtRest
    /\ ImportAtRest
    /\ EnhanceAtRest
    /\ VideosAtRest
    /\ UtilsAtRest

NextPager ==
    \/ StartGetPlaylistVideos
    \/ PageLoopHead
    \/ FetchPage
    \/ ReturnPlaylistVideos

SpecPager == InitPager /\ [][NextPager]_vars

\* The event loop runs a call that can take a step.
SpecPagerFair == SpecPager /\ WF_vars(PageLoopHead \/ FetchPage)

\* The analysis cache of one (playlist, analysis type) pair.
InitAnalysis ==
    /\ now = 0
    /\ ticks = 0
    /\ calls = 0
    /\ quota = NoRow
    /\ granted = 0
    /\ FetchAtRest
    /\ ImportAtRest
    /\ EnhanceAtRest
    /\ VideosAtRest
    /\ pg = IdlePager
    /\ dur = NoDuration
    /\ \E type \in AnalysisTypes : ca = NoAnalysis(type)

NextAnalysis ==
    \/ \E p \in Callers :
          \/ StartAnalyze(p)
          \/ AnalyzeSelect(p)
          \/ RunHeuristic(p)
          \/ StoreAnalysis(p)
          \/ ReturnAnalysis(p)
    \/ TickAnalysis

SpecAnalysis == InitAnalysis /\ [][NextAnalysis]_vars

\* parseDuration on each argument.
InitDuration ==
    /\ now = 0
    /\ ticks = 0
    /\ calls = 0
    /\ quota = NoRow
    /\ granted = 0
    /\ FetchAtRest
    /\ ImportAtRest
    /\ EnhanceAtRest
    /\ VideosAtRest
    /\ pg = IdlePager
    /\ ca = NoAnalysis("topics")
    /\ \E d \in DurationInputs :
          dur = [NoDuration EXCEPT !.pc = "called", !.duration = d]

SpecDuration == InitDuration /\ [][ParseDuration]_vars

\* One request at a time, removals only.
NextRemove ==
    \/ StartRemoveVideo(1)
    \/ RemoveSelect(1)
    \/ RemoveDelete(1)
    \/ RemoveRenumber(1)
    \/ UpdateVideoCount(1)
    \/ ReturnVideo(1)

SpecRemove == InitVideos /\ [][NextRemove]_vars

\* ------------------------------------------------------------------ claims

Range(f) == {f[i] : i \in DOMAIN f}
RequestEvents == {"request_ok", "request_failed"}

\* C1: under any interleaving of concurrent checkQuota calls on one day's row,
\* quota_used never exceeds the daily budget, and no reservation fails while
\* the budget still admits it (as many succeed as the budget admits).
C1_QuotaExhaustiveNonLeaking ==
    /\ quota # NoRow => quota.quota_used <= QuotaLimit
    /\ \A p \in Callers :
          (call[p].pc = "done" /\ call[p].op = "reserve"
              /\ call[p].result.kind = "error")
          => (quota # NoRow /\ quota.quota_used + call[p].cost > QuotaLimit)

\* C2, state part: every upstream request of a call directly follows a
\* reservation that succeeded in that call, and no request follows a
\* rejected reservation.
C2_RequestsFollowReservations ==
    \A p \in Callers :
        LET l == call[p].log IN
        /\ call[p].pc = "request" => (l # <<>> /\ l[Len(l)] = "reserved")
        /\ \A i \in DOMAIN l :
              /\ l[i] \in RequestEvents => (i > 1 /\ l[i - 1] = "reserved")
              /\ l[i] = "rejected" => \A j \in DOMAIN l : j > i => l[j] \notin RequestEvents

\* C2, step part: the step in which checkQuota rejects a reservation leaves
\* the day's quota_used and requests_count unchanged.
C2_RejectionLeavesQuota ==
    \A p \in Callers :
        call'[p].log = Append(call[p].log, "rejected") => quota' = quota

\* C2: no upstream request is issued unless a reservation for it succeeded
\* earlier in the same call; a rejected reservation is followed by no network
\* call and leaves quota_used and requests_count unchanged.
C2_NoRequestWithoutReservation ==
    [] C2_RequestsFollowReservations /\ [][C2_RejectionLeavesQuota]_vars

\* C2 witness: a call that ended on a rejected reservation.
C2_Witness ==
    \E p \in Callers :
        /\ call[p].pc = "done" /\ call[p].op = "fetch"
        /\ "rejected" \in Range(call[p].log)
        /\ call[p].result = ErrorResult("QuotaExceeded")

\* C8, step part: the cache read is a hit exactly when the row exists and the
\* current time is before its expiration; a hit hands on the stored object
\* unchanged, and the call that hits returns it.
C8_ReadStep ==
    \A p \in Callers :
        /\ (call[p].pc = "select" /\ call'[p].pc = "touch")
              => /\ cache # NoRow /\ now < cache.expires_at
                 /\ JSONParse(call'[p].cached) = cache.payload
        /\ (call[p].pc = "select" /\ call'[p].pc = "q_select"
                /\ call'[p].attempt = "primary")
              => ~(cache # NoRow /\ now < cache.expires_at)
        /\ (call[p].pc = "touch" /\ call'[p].pc = "done")
              => call'[p].result = [kind |-> "payload", from |-> "cache",
                                    data |-> JSONParse(call[p].cached)]
        /\ (call[p].pc = "store" /\ call'[p].pc = "done")
              => /\ cache'.expires_at = now + call[p].ttl
                 /\ JSONParse(cache'.data) = call[p].data

\* C8: a cache read returns the stored payload, unchanged, only while the
\* current time is before the entry's expiration; after it the read is a
\* miss although the row still exists.
C8_ReadOnlyWhileLive == [][C8_ReadStep]_vars

\* C8 witness: a read that missed on a row that exists but has expired.
C8_Witness ==
    \E p \in Callers :
        /\ call[p].log = <<"miss">>
        /\ cache # NoRow /\ cache.expires_at <= now

\* C9: when the upstream request made on a cache miss fails, the call writes
\* no cache entry and ends in an error (no payload is returned).
C9_UpstreamFailurePropagates ==
    \A p \in Callers :
        LET l == call[p].log IN
        (call[p].pc = "done" /\ Len(l) >= 3
            /\ SubSeq(l, 1, 3) = <<"miss", "reserved", "request_failed">>)
        => (call[p].result.kind = "error" /\ "stored" \notin Range(l))

C3_StatusStep ==
    job.exists =>
        /\ job'.exists
        /\ job.status # "pending" => job'.status = job.status

C3_FinalizedOnce == [][C3_StatusStep]_vars

RECURSIVE CompletedTokens(_)
CompletedTokens(history) ==
    IF history = <<>> THEN 0
    ELSE (IF Head(history).status = "completed"
          THEN Head(history).tokens_used ELSE 0)
         + CompletedTokens(Tail(history))

CompletedRecords == {i \in DOMAIN enh : enh[i].status = "completed"}

\* C4: every enhancement record that is completed has added 1 to
\* requests_count and its tokens to tokens_used of the usage record of its
\* (user, day, model), which exists as soon as one record is completed: the
\* usage record counts exactly the completed records and sums their tokens.
C4_UsageAccounting ==
    /\ CompletedRecords # {} => usage.exists
    /\ usage.exists =>
          /\ usage.requests_count = Cardinality(CompletedRecords)
          /\ usage.tokens_used = CompletedTokens(enh)

\* Some enhancement of the playlist completed less than the cooldown ago.
CompletedWithinCooldown ==
    \E i \in CompletedRecords :
        \E at \in enh[i].completed_at : now - at < CooldownSeconds

\* Every attempt on the playlist that ended did so a full cooldown ago or
\* earlier.
CooldownElapsed ==
    \A i \in DOMAIN enh :
        \A at \in enh[i].completed_at : now - at >= CooldownSeconds

\* The step in which caller p's cooldown query is answered or fails.
C5_CooldownStep ==
    \A p \in Callers :
        (eh[p].pc = "cooldown" /\ eh'[p].pc # "cooldown") =>
            /\ CompletedWithinCooldown =>
                  /\ eh'[p].pc = "done"
                  /\ eh'[p].response = 429 \/ eh'[p].error = "DBError"
                  /\ eh'[p].id = 0
                  /\ enh' = enh
            /\ CooldownElapsed =>
                  /\ eh'[p].response # 429
                  /\ eh'[p].pc = "insert" \/ eh'[p].error = "DBError"

\* A call that got past the cooldown and met no failure answers 200 and its
\* record is completed.
C5_PassedSucceeds ==
    \A p \in Callers :
        (eh[p].pc = "done" /\ eh[p].id # 0 /\ eh[p].error = "none") =>
            /\ eh[p].response = 200
            /\ enh[eh[p].id].status = "completed"

Contiguous(rs) ==
    LET ps == {r.position : r \in rs}
        n == Cardinality(rs)
    IN /\ Cardinality(ps) = n
       /\ n = 0 \/ ps = 0..(n - 1) \/ ps = 1..n

\* C6: when the first removal on a playlist with contiguous positions (as
\* the import left them) has been answered with success, by the remove-video
\* handler of any of the workers and with no other request in between, the
\* positions of the remaining videos are contiguous again.
C6_ContiguousAfterRemove ==
    (calls = 1 /\ vh[1].pc = "done" /\ vh[1].op = "remove"
               /\ vh[1].response = 200)
        => Contiguous(rows)

\* C7: whatever insertions (import, add-video) and removals have run or are
\* in flight on the playlist, video_count is the number of its rows.
C7_VideoCountIsRowCount == video_count = Cardinality(rows)

\* Two requests overlapped: an add that inserted after a remove had deleted
\* and before that remove renumbered and recounted.
C7_Witness ==
    /\ vh[1].pc = "recount" /\ vh[1].op = "remove"
    /\ vh[2].pc = "done" /\ vh[2].op = "add" /\ vh[2].response = 201
    /\ HasVideo(rows, vh[2].video)
    /\ ~HasVideo(rows, vh[1].video)

\* The job of a request that returned without any throw reaching
\* catch (importError).
ImportEndedCleanly == imp.pc = "done" /\ imp.error = "none" /\ job.exists

\* A failed insert leaves the handler in the loop, one video further.
C11_LoopStep ==
    (imp.pc = "videos" /\ imp' # imp) =>
        /\ imp'.pc \in {"videos", "progress", "finalize"}
        /\ imp'.idx = imp.idx + 1
        /\ imp'.importedCount + imp'.skipped = imp'.idx

C11_PartialState ==
    /\ imp.pc \in {"finalize", "respond"} => imp.idx = imp.n
    /\ ImportEndedCleanly =>
          /\ job.status = "completed"
          /\ job.videos_imported = imp.n - imp.skipped
          /\ job.total_videos = imp.n

C12_DetailFailureSkipped ==
    (imp.pc = "done" /\ job.exists /\ comp.detailFailures > 0
        /\ imp.error \in {"none", "ImportFailed"})
    => /\ job.status = "completed"
       /\ job.total_videos = comp.listed
       /\ job.videos_imported = imp.importedCount

\* C13: importPlaylist never returns an empty video list: when no listed
\* video has a public detail record it throws the no-public-videos error.
C13_NoPublicVideos ==
    /\ comp.pc = "returned" => comp.public > 0
    /\ (comp.pc \in {"thrown", "rethrown"} /\ comp.detailed = comp.listed
           /\ comp.listed > 0 /\ comp.public = 0)
        => comp.error = "NoPublicVideos"

C15_FailedStep ==
    /\ playlist' # playlist =>
          \E p \in Callers :
              /\ eh'[p] # eh[p]
              /\ eh[p].id # 0
              /\ enh'[eh[p].id].status = "completed"
    /\ \A i \in DOMAIN enh :
          /\ enh[i].status = "completed" => enh'[i].status = "completed"
          /\ enh[i].status = "failed" => enh'[i] = enh[i]

\* The request whose record is failed answers with the error.
C15_ErrorReturned ==
    \A p \in Callers :
        (eh[p].pc = "done" /\ eh[p].id # 0
            /\ enh[eh[p].id].status = "failed")
        => eh[p].response = 500 /\ eh[p].error # "none"

\* C15: an enhancement attempt whose record ends failed (oracle error,
\* rejected output) has left ai_description, enhanced, enhancement_status,
\* enhancement_version and last_enhanced_at of the playlist as they were,
\* and its request answers with the error.
C15_FailedLeavesPlaylist == [] C15_ErrorReturned /\ [][C15_FailedStep]_vars

\* A failed second attempt next to a completed first one: the playlist
\* carries what the first one wrote.
C15_Witness ==
    \E p \in Callers :
        /\ eh[p].pc = "done" /\ eh[p].response = 500 /\ eh[p].id = 2
        /\ enh[2].status = "failed" /\ enh[1].status = "completed"
        /\ playlist.enhanced /\ playlist.ai_description = enh[1].enhanced_content
        /\ playlist.enhancement_version = NewPlaylist.enhancement_version + 1
        /\ playlist.last_enhanced_at = enh[1].completed_at

\* C16: whenever handleEnhancePlaylist reports success, its record is
\* completed and the playlist has enhanced = true and ai_description equal
\* to the record's enhanced content.
C16_SuccessWroteBack ==
    \A p \in Callers :
        (eh[p].pc = "done" /\ eh[p].response = 200) =>
            /\ enh[eh[p].id].status = "completed"
            /\ playlist.enhanced
            /\ playlist.ai_description = enh[eh[p].id].enhanced_content

\* The step in which caller p's cooldown query is answered while no
\* completed enhancement lies within the last hour.
C17_CooldownStep ==
    \A p \in Callers :
        (eh[p].pc = "cooldown" /\ eh'[p].pc # "cooldown"
            /\ ~CompletedWithinCooldown)
        => eh'[p].response # 429

\* C17: only completed enhancements trigger the cooldown: a request is not
\* answered 429 when no completed enhancement of the playlist lies within
\* the last hour, whatever failed ones do.
C17_CooldownOnlyByCompleted == [][C17_CooldownStep]_vars

\* C18: a read that hit the cache and whose access bookkeeping (counter,
\* last-accessed) failed still ends with the cached payload, not an error.
C18_TouchFailureHarmless ==
    \A p \in Callers :
        LET l == call[p].log IN
        (call[p].pc = "done" /\ Len(l) >= 2
            /\ SubSeq(l, 1, 2) = <<"hit", "touch_failed">>)
        => /\ call[p].result.kind = "payload"
           /\ call[p].result.data = JSONParse(call[p].cached)

\* C19: a call that missed, fetched the payload from upstream and then
\* failed to write it to the cache still ends with a payload, not an error.
C19_StoreFailureHarmless ==
    \A p \in Callers :
        LET l == call[p].log IN
        (call[p].pc = "done" /\ "request_ok" \in Range(l)
            /\ "store_failed" \in Range(l))
        => call[p].result.kind = "payload"

\* C20: in every state the positions of the videos of the playlist are a
\* total order: no two videos share a position, whatever imports, adds
\* (with or without a position), removals and position updates have run.
C20_PositionsTotalOrder ==
    \A r1, r2 \in rows : r1.position = r2.position => r1 = r2

\* The videos named by a reorder body are at the positions of their indexes.
FollowsOrder(rs, vo) ==
    \A i \in 1..Len(vo) : \A r \in rs : r.id = vo[i] => r.position = i

\* C21: after a reorder that ran alone has answered 200 the positions of
\* the playlist are contiguous, pairwise distinct and in the order of the
\* request; and the writes of a reorder are one batch: no state has only a
\* part of them applied.
C21_ReorderIsOneBatch ==
    \A p \in Callers :
        vh[p].op = "reorder" =>
            /\ vh[p].idx \in {0, Len(vh[p].order)}
            /\ (calls = 1 /\ vh[p].pc = "done" /\ vh[p].response = 200) =>
                   Contiguous(rows) /\ FollowsOrder(rows, vh[p].order)

\* A call fetches a further page only while the cursor is there and the
\* videos gathered are fewer than asked for.
C22_PageStep ==
    (pg.pc = "loop" /\ pg'.pc = "fetch" /\ pg.pageCount > 0) =>
        pg.token /\ pg.videos < pg.maxResults

C22_WithinCeiling == pg.fetched <= MaxPages

\* C22: getPlaylistVideos ends, after no more than 10 page fetches,
\* whatever the upstream answers (a cursor on every page included), and it
\* asks for a further page only while the cursor is present and the
\* accumulated videos are below the requested maximum.
C22_PagerTerminates ==
    /\ [] C22_WithinCeiling
    /\ [][C22_PageStep]_vars
    /\ (pg.pc = "loop" ~> pg.pc \in {"returned", "thrown"})

\* The ceiling stopped a call whose every page carried a cursor.
C22_Witness ==
    /\ pg.pc = "returned"
    /\ pg.pageCount = MaxPages + 1
    /\ pg.fetched = MaxPages
    /\ pg.token
    /\ pg.videos < pg.maxResults

\* C30: getPlaylistVideos returns no more than maxResults videos.
C30_AtMostMaxResults == pg.pc = "returned" => pg.videos <= pg.maxResults

LiveAnalysis == {r \in ca.rows : LiveRow(r, now)}

\* What one step of a request does: it runs on to the heuristic only
\* without a live row; an answer from the cache is the live row's data as
\* stored, with no heuristic run and no write; a fresh answer has run the
\* heuristic once and left the one row of the pair, expiring 7 days on.
C23_RequestStep ==
    \A p \in Callers :
        LET h == ca.h[p]
            h2 == ca'.h[p]
        IN /\ (h.pc = "select" /\ h2.pc = "analyze") => LiveAnalysis = {}
           /\ (h.pc = "select" /\ h2.pc = "done" /\ h2.result.error = "none") =>
                 /\ h2.result.cached
                 /\ h2.ran = 0
                 /\ ca'.rows = ca.rows
                 /\ \E r \in LiveAnalysis :
                       h2.result.data = JSONParse(r.analysis_data)
           /\ (h.pc = "store" /\ h2.pc = "done" /\ h2.result.error = "none") =>
                 /\ ~h2.result.cached
                 /\ h2.ran = 1
                 /\ \E r \in ca'.rows :
                       /\ ca'.rows = {r}
                       /\ r.expires_at = now + AnalysisTTL
                       /\ r.analysis_data = JSONStringify(h2.result.data)

C23_OneRowPerPair == Cardinality(ca.rows) <= 1

\* C23: for a (playlist, type) pair a request that finds no live row runs
\* the heuristic, stores one row that expires 7 days later and answers
\* cached = false; a request that finds the live row answers its data as
\* stored with cached = true and runs no heuristic; the pair never has
\* more than one row. (Requests whose own statements fail answer with an
\* error field and are C24's subject.)
C23_AnalysisCached == [] C23_OneRowPerPair /\ [][C23_RequestStep]_vars

\* A later request, before the expiry, answered from the stored row.
C23_Witness ==
    \E p \in Callers :
        /\ ca.h[p].pc = "done"
        /\ ca.h[p].result.cached
        /\ now > 0
        /\ \E r \in ca.rows : r.id # ca.h[p].req /\ r.created_at < now

\* C24: getCachedOrAnalyze never lets an error through; a request whose
\* heuristic failed answers the default payload of its type with
\* confidence 0 and cached = false, and writes no row.
C24_HeuristicFailureDefault ==
    \A p \in Callers :
        /\ ca.h[p].result.kind # "thrown"
        /\ ca.h[p].failed =>
              /\ \A r \in ca.rows : r.id # ca.h[p].req
              /\ ca.h[p].pc = "done" =>
                    /\ ~ca.h[p].result.cached
                    /\ ca.h[p].result.data = getDefaultAnalysis(ca.type)
                    /\ ca.h[p].result.confidence = 0

\* A heuristic failed while the other request's row was in the table.
C24_Witness ==
    \E p \in Callers :
        /\ ca.h[p].failed
        /\ ca.h[p].pc = "done"
        /\ ca.rows # {}

\* One sweep: the row goes only if its expiration is before now, and then
\* a read at that moment would not have returned it; the count answered
\* is the number of rows deleted; a DELETE that ran leaves no row whose
\* expiration is before now, and a sweep that finds none deletes nothing
\* and answers 0.
C25_SweepStep ==
    \A p \in Callers :
        (call[p].pc = "sweep" /\ call'[p].pc = "done") =>
            LET deleted == cache # NoRow /\ cache' = NoRow
                past == cache # NoRow /\ cache.expires_at < now
            IN /\ cache' \in {cache, NoRow}
               /\ deleted => past /\ ~LiveRow(cache, now)
               /\ call'[p].result.n = IF deleted THEN 1 ELSE 0
               /\ call'[p].log = <<"swept">> => (past <=> deleted)
               /\ ~past => cache' = cache /\ call'[p].result.n = 0

RECURSIVE FieldValue(_)
FieldValue(ds) ==
    IF Len(ds) = 0 THEN 0
    ELSE 10 * FieldValue(SubSeq(ds, 1, Len(ds) - 1)) + ds[Len(ds)]

Component(c) == IF c = {} THEN 0 ELSE CHOOSE n \in c : TRUE

\* Two digits at least, and no more than the number needs.
TwoDigits(ds, n) ==
    FieldValue(ds) = n /\ Len(ds) = (IF n < 100 THEN 2 ELSE 3)

\* C26 as stated: H:MM:SS exactly when the token has an hours component.
C26_HoursPresentForm ==
    (dur.pc = "returned" /\ dur.duration.kind = "PT") =>
        (Len(dur.out) = 3 <=> dur.duration.h # {})

\* C26, amended: for a token PT[nH][nM][nS] (an absent component counts
\* as 0) parseDuration renders H:MM:SS when the hours are greater than 0
\* and M:SS otherwise, minutes (in the hours form) and seconds padded to
\* two digits: PT1H2M3S is 1:02:03, PT5M9S is 5:09, PT45S is 0:45; an
\* argument with nothing to parse is 0:00.
C26_DurationRendered ==
    dur.pc = "returned" =>
        LET d == dur.duration
            out == dur.out
        IN IF d.kind # "PT" THEN out = <<<<0>>, <<0, 0>>>>
           ELSE LET h == Component(d.h)
                    m == Component(d.m)
                    s == Component(d.s)
                IN /\ h > 0 =>
                        /\ Len(out) = 3
                        /\ FieldValue(out[1]) = h /\ out[1][1] # 0
                        /\ TwoDigits(out[2], m)
                        /\ TwoDigits(out[3], s)
                   /\ h = 0 =>
                        /\ Len(out) = 2
                        /\ FieldValue(out[1]) = m
                        /\ Len(out[1]) = (IF m < 10 THEN 1 ELSE 2)
                        /\ TwoDigits(out[2], s)
                   /\ (d.h = {1} /\ d.m = {2} /\ d.s = {3}) =>
                        out = <<<<1>>, <<0, 2>>, <<0, 3>>>>
                   /\ (d.h = {} /\ d.m = {5} /\ d.s = {9}) =>
                        out = <<<<5>>, <<0, 9>>>>
                   /\ (d.h = {} /\ d.m = {} /\ d.s = {45}) =>
                        out = <<<<0>>, <<4, 5>>>>
                   /\ (d.h = {} /\ d.m = {} /\ d.s = {}) =>
                        out = <<<<0>>, <<0, 0>>>>

\* PT1H2M3S has been rendered.
C26_Witness ==
    /\ dur.pc = "returned"
    /\ dur.duration = [kind |-> "PT", h |-> {1}, m |-> {2}, s |-> {3}]
    /\ Len(dur.out) = 3

Occurrences(log, events) == Len(SelectSeq(log, LAMBDA e : e \in events))

\* C27: one getCachedOrFetch call reserves quota at most once and sends at
\* most one upstream request, whatever succeeds or fails on its way.
C27_OneReservationOneRequest ==
    \A p \in Callers :
        call[p].op = "fetch" =>
            /\ Occurrences(call[p].log, {"reserved"}) <= 1
            /\ Occurrences(call[p].log, RequestEvents) <= 1

\* The day's row holds what the reservations that succeeded add up to.
C28_LedgerIsSum ==
    /\ quota # NoRow =>
          /\ quota.quota_used = granted.units
          /\ quota.requests_count = granted.count
    /\ quota = NoRow => granted.count = 0

\* No step takes units back, and the row stays once it is there.
C28_NoRefund ==
    quota # NoRow =>
        /\ quota' # NoRow
        /\ quota'.quota_used >= quota.quota_used

\* C28: within a day quota_used never decreases and equals the sum of the
\* costs of the reservations that succeeded that day, requests_count their
\* number, under any interleaving of reservations and whatever the
\* upstream call after a reservation did.
C28_QuotaIsSumOfReservations == [] C28_LedgerIsSum /\ [][C28_NoRefund]_vars

\* Two callers hold a reservation each and the upstream call of one failed.
C28_Witness ==
    \E p, q \in Callers :
        /\ p # q
        /\ "reserved" \in Range(call[p].log)
        /\ "request_failed" \in Range(call[p].log)
        /\ "reserved" \in Range(call[q].log)
        /\ quota # NoRow /\ quota.quota_used > QuotaLimit - Headroom

\* C29: a run of handleImportPlaylist that stored its pending job and has
\* answered (201 or an error) has written the job completed or failed.
C29_AnsweredJobIsFinal ==
    (imp.pc = "done" /\ job.exists) => job.status \in {"completed", "failed"}


====
